---- MODULE Spec2Model ----
(***************************************************************************)
(* A model of wev's style resolution (src/src/cssom.rs, src/src/style.rs)  *)
(* and of its layout engine (src/src/layout.rs).                           *)
(*                                                                         *)
(* Strings that the code inspects character by character (attribute        *)
(* contents, selector values, class names) are sequences of one-character  *)
(* strings; strings that are only compared (tag names, attribute names,    *)
(* property names, keywords) are TLA+ strings.                             *)
(***************************************************************************)
EXTENDS Integers, Sequences, FiniteSets, TLC

VARIABLES
    \* SimpleSelector::matches(self, n): one call
    m_selector, m_node, m_pc, m_result,
    \* to_styled_node(node, stylesheet): one call, loop by loop
    node, stylesheet, pc, cursor, properties, styled,
    \* history: the (selector, declaration) pairs the inner loop has visited
    applied,
    \* split_string_by_width(text, width, offset): one call, cluster by cluster
    text, width, offset, s_pc, gi, result, curr_width, prev_index, curr_index,
    \* node_to_object(node, area, offset): one call; the loop of
    \* children_to_object child by child.  l_build is the build profile
    \* (overflow checks on or off), l_overflow says that a 16-bit operation
    \* has overflowed.
    l_node, l_area, l_offset, l_build, l_pc, l_ci, l_y, l_height, l_objects,
    l_content_len, l_width, l_overflow, l_ret

matchVars == <<m_selector, m_node, m_pc, m_result>>
styleVars == <<node, stylesheet, pc, cursor, properties, styled, applied>>
splitVars ==
    <<text, width, offset, s_pc, gi, result, curr_width, prev_index, curr_index>>
layoutVars ==
    <<l_node, l_area, l_offset, l_build, l_pc, l_ci, l_y, l_height, l_objects,
      l_content_len, l_width, l_overflow, l_ret>>
vars == <<matchVars, styleVars, splitVars, layoutVars>>

(***************************************************************************)
(* Bounds of the model.                                                    *)
(***************************************************************************)
MaxStrLen == 3
MaxRules == 2
MaxSelectors == 2
MaxDeclarations == 2
MaxTextLen == 4
MaxWidth == 5
MaxOffset == 3
MaxChildren == 2
MaxLayoutTextLen == 3
MaxLayoutWidth == 4
MaxLayoutOffset == 1

\* Option<T>
None == [some |-> FALSE]
Some(x) == [some |-> TRUE, val |-> x]

Min(a, b) == IF a < b THEN a ELSE b

(***************************************************************************)
(* dom.rs: Node, NodeType, Element, Text.  `id` stands for the address of  *)
(* the node (StyledNode borrows &node.node_type).                          *)
(***************************************************************************)
TextNode(id, data) ==
    [id |-> id, type |-> "Text", data |-> data, children |-> <<>>]

ElementNode(id, tag_name, attributes, children) ==
    [id |-> id, type |-> "Element", tag_name |-> tag_name,
     attributes |-> attributes, children |-> children]

\* HashMap<String, _>: a function whose domain is the set of keys
EmptyMap == [k \in {} |-> 0]

MapInsert(m, key, v) ==
    [k \in (DOMAIN m) \cup {key} |-> IF k = key THEN v ELSE m[k]]

MapGet(m, key) == IF key \in DOMAIN m THEN Some(m[key]) ELSE None

(***************************************************************************)
(* cssom.rs: SimpleSelector and its matches / specificity.                 *)
(***************************************************************************)
UniversalSelector == [kind |-> "Universal"]

TypeSelector(tag_name) == [kind |-> "Type", tag_name |-> tag_name]

AttributeSelector(tag_name, op, attribute, value) ==
    [kind |-> "Attribute", tag_name |-> tag_name, op |-> op,
     attribute |-> attribute, value |-> value]

ClassSelector(class_name) == [kind |-> "Class", class_name |-> class_name]

\* char::is_ascii_whitespace: U+0020, U+0009, U+000A, U+000C, U+000D
IsAsciiWhitespace(c) == c \in {" ", "\t", "\n", "\f", "\r"}

\* str::split_ascii_whitespace: the maximal runs of non-whitespace, in order
RECURSIVE SplitWs(_, _, _)
SplitWs(s, cur, acc) ==
    IF s = <<>>
    THEN IF cur = <<>> THEN acc ELSE Append(acc, cur)
    ELSE IF IsAsciiWhitespace(Head(s))
         THEN SplitWs(Tail(s), <<>>, IF cur = <<>> THEN acc ELSE Append(acc, cur))
         ELSE SplitWs(Tail(s), Append(cur, Head(s)), acc)

SplitAsciiWhitespace(s) == SplitWs(s, <<>>, <<>>)

\* Iterator::find(|v| v == value).is_some()
FindToken(tokens, value) == \E i \in 1..Len(tokens) : tokens[i] = value

\* Mutant of AttributeOpMatches: Contain looks for value anywhere in the content.
AttributeOpMatchesSubstring(op, attributes, attribute, value) ==
    IF op = "Eq"
    THEN MapGet(attributes, attribute) = Some(value)
    ELSE IF attribute \in DOMAIN attributes
         THEN \E i \in 1..(Len(attributes[attribute]) + 1) :
                 \E j \in (i - 1)..Len(attributes[attribute]) :
                     SubSeq(attributes[attribute], i, j) = value
         ELSE FALSE

AttributeOpMatches(op, attributes, attribute, value) ==
    IF op = "Eq"
    THEN MapGet(attributes, attribute) = Some(value)
    ELSE IF attribute \in DOMAIN attributes
         THEN FindToken(SplitAsciiWhitespace(attributes[attribute]), value)
         ELSE FALSE

\* Mutant of ClassMatches: class_name is one of the tokens of the attribute.
ClassMatchesToken(attributes, class_name) ==
    IF "class" \in DOMAIN attributes
    THEN FindToken(SplitAsciiWhitespace(attributes["class"]), class_name)
    ELSE FALSE

ClassMatches(attributes, class_name) ==
    MapGet(attributes, "class") = Some(class_name)

\* Mutant of SelectorMatches: tag names are compared without regard to case.
AsciiLowercase(t) == IF t = "P" THEN "p" ELSE t

SelectorMatchesIgnoreCase(s, n) ==
    CASE s.kind = "Universal" -> TRUE
      [] s.kind = "Type" ->
            IF n.type = "Element"
            THEN AsciiLowercase(n.tag_name) = AsciiLowercase(s.tag_name)
            ELSE FALSE
      [] s.kind = "Attribute" ->
            IF n.type = "Element"
            THEN n.tag_name = s.tag_name
                 /\ AttributeOpMatches(s.op, n.attributes, s.attribute, s.value)
            ELSE FALSE
      [] s.kind = "Class" ->
            IF n.type = "Element"
            THEN ClassMatches(n.attributes, s.class_name)
            ELSE FALSE

SelectorMatches(s, n) ==
    CASE s.kind = "Universal" -> TRUE
      [] s.kind = "Type" ->
            IF n.type = "Element" THEN n.tag_name = s.tag_name ELSE FALSE
      [] s.kind = "Attribute" ->
            IF n.type = "Element"
            THEN n.tag_name = s.tag_name
                 /\ AttributeOpMatches(s.op, n.attributes, s.attribute, s.value)
            ELSE FALSE
      [] s.kind = "Class" ->
            IF n.type = "Element"
            THEN ClassMatches(n.attributes, s.class_name)
            ELSE FALSE

Specificity(s) ==
    CASE s.kind = "Universal" -> 0
      [] s.kind = "Type" -> 1
      [] s.kind \in {"Attribute", "Class"} -> 10

(***************************************************************************)
(* cssom.rs: Rule, Declaration, Stylesheet.  CSSValue has the one variant  *)
(* Keyword(String); a value is the keyword.                                *)
(***************************************************************************)
Declaration(name, value) == [name |-> name, value |-> value]

Rule(selectors, declarations) ==
    [selectors |-> selectors, declarations |-> declarations]

\* self.selectors.iter().any(|s| s.matches(n))
RuleMatches(r, n) ==
    \E i \in 1..Len(r.selectors) : SelectorMatches(r.selectors[i], n)

(***************************************************************************)
(* style.rs: to_styled_node.                                               *)
(***************************************************************************)
\* selectors.iter().zip(declarations.iter()) yields this many pairs
ZipLen(r) == Min(Len(r.selectors), Len(r.declarations))

\* Mutant of NextPair: a pair whose own selector does not match is skipped.
RECURSIVE NextPair(_, _, _, _)
NextPairMatchingOnly(sheet, n, ri, pi) ==
    IF ri > Len(sheet.rules)
    THEN <<Len(sheet.rules) + 1, 1>>
    ELSE IF RuleMatches(sheet.rules[ri], n) /\ pi <= ZipLen(sheet.rules[ri])
         THEN IF SelectorMatches(sheet.rules[ri].selectors[pi], n)
              THEN <<ri, pi>>
              ELSE NextPair(sheet, n, ri, pi + 1)
         ELSE NextPair(sheet, n, ri + 1, 1)

\* The next pair the two nested `for` loops visit, at or after pair pi of
\* rule ri: rules.iter().filter(|r| r.matches(node)) skips the rules that
\* do not match, and the zip of a rule ends with its shorter list.
\* <<Len(rules) + 1, 1>> when the outer loop is over.
NextPair(sheet, n, ri, pi) ==
    IF ri > Len(sheet.rules)
    THEN <<Len(sheet.rules) + 1, 1>>
    ELSE IF RuleMatches(sheet.rules[ri], n) /\ pi <= ZipLen(sheet.rules[ri])
         THEN <<ri, pi>>
         ELSE NextPair(sheet, n, ri + 1, 1)

\* Mutant of InsertDeclaration: the later declaration always wins.
InsertDeclarationLastWins(props, sel, decl) ==
    MapInsert(props, decl.name,
              [specificity |-> Specificity(sel), value |-> decl.value])

\* Mutant of InsertDeclaration: `<` for `<=`, a tie keeps the earlier value.
InsertDeclarationStrict(props, sel, decl) ==
    IF decl.name \in DOMAIN props
    THEN IF props[decl.name].specificity < Specificity(sel)
         THEN MapInsert(props, decl.name,
                        [specificity |-> Specificity(sel), value |-> decl.value])
         ELSE props
    ELSE MapInsert(props, decl.name,
                   [specificity |-> Specificity(sel), value |-> decl.value])

\* The body of the inner loop: properties is HashMap<String, (u32, CSSValue)>
InsertDeclaration(props, sel, decl) ==
    IF decl.name \in DOMAIN props
    THEN IF props[decl.name].specificity <= Specificity(sel)
         THEN MapInsert(props, decl.name,
                        [specificity |-> Specificity(sel), value |-> decl.value])
         ELSE props
    ELSE MapInsert(props, decl.name,
                   [specificity |-> Specificity(sel), value |-> decl.value])

\* The two loops, run from pair cur to the end
RECURSIVE ScanFrom(_, _, _, _)
ScanFrom(sheet, n, cur, props) ==
    IF cur[1] > Len(sheet.rules)
    THEN props
    ELSE ScanFrom(sheet, n, NextPair(sheet, n, cur[1], cur[2] + 1),
                  InsertDeclaration(props,
                                    sheet.rules[cur[1]].selectors[cur[2]],
                                    sheet.rules[cur[1]].declarations[cur[2]]))

ScanRules(sheet, n) == ScanFrom(sheet, n, NextPair(sheet, n, 1, 1), EmptyMap)

DisplayNoneTags ==
    {"area", "base", "basefont", "datalist", "head", "link", "meta",
     "noembed", "noframes", "param", "rp", "script", "style", "template",
     "title"}

BoldTags == {"b", "strong"}

\* Mutant of DefaultDisplay: a value recorded with specificity 0 counts as unset.
DefaultDisplayOverZero(props, n) ==
    IF "display" \in DOMAIN props /\ props["display"].specificity > 0
    THEN props
    ELSE IF n.type = "Element"
         THEN MapInsert(props, "display",
                        [specificity |-> 0,
                         value |-> IF n.tag_name \in DisplayNoneTags
                                   THEN "none" ELSE "block"])
         ELSE props

\* if properties.get("display").is_none() { ... }
DefaultDisplay(props, n) ==
    IF "display" \in DOMAIN props
    THEN props
    ELSE IF n.type = "Element"
         THEN MapInsert(props, "display",
                        [specificity |-> 0,
                         value |-> IF n.tag_name \in DisplayNoneTags
                                   THEN "none" ELSE "block"])
         ELSE props

\* Mutant of DefaultFontWeight: a Text node gets the default too.
DefaultFontWeightAnyNode(props, n) ==
    IF "font-weight" \in DOMAIN props
    THEN props
    ELSE MapInsert(props, "font-weight",
                   [specificity |-> 0,
                    value |-> IF n.type = "Element" /\ n.tag_name \in BoldTags
                              THEN "bold" ELSE "normal"])

\* if properties.get("font-weight").is_none() { ... }
DefaultFontWeight(props, n) ==
    IF "font-weight" \in DOMAIN props
    THEN props
    ELSE IF n.type = "Element"
         THEN MapInsert(props, "font-weight",
                        [specificity |-> 0,
                         value |-> IF n.tag_name \in BoldTags
                                   THEN "bold" ELSE "normal"])
         ELSE props

\* properties.get("display").map(|v| &v.1) == Some(&CSSValue::Keyword("none"))
IsDisplayNone(props) ==
    IF "display" \in DOMAIN props THEN props["display"].value = "none" ELSE FALSE

\* properties.into_iter().map(|(k, v)| (k, v.1)).collect()
StripSpecificity(props) == [k \in DOMAIN props |-> props[k].value]

\* &node.node_type: the node without its children
NodeTypeOf(n) ==
    IF n.type = "Element"
    THEN [id |-> n.id, type |-> "Element", tag_name |-> n.tag_name,
          attributes |-> n.attributes]
    ELSE [id |-> n.id, type |-> "Text", data |-> n.data]

StyledNode(node_type, props, children) ==
    [node_type |-> node_type, properties |-> props, children |-> children]

\* Everything of to_styled_node before its `return None`: the final map
ResolveProperties(n, sheet) ==
    DefaultFontWeight(DefaultDisplay(ScanRules(sheet, n), n), n)

RECURSIVE ToStyledNode(_, _)
RECURSIVE FilterMapChildren(_, _)
\* Mutant of FilterMapChildren: the children of a pruned child take its place.
FilterMapChildrenHoist(children, sheet) ==
    IF children = <<>>
    THEN <<>>
    ELSE LET first == ToStyledNode(Head(children), sheet)
             rest == FilterMapChildren(Tail(children), sheet)
         IN  IF first.some
             THEN <<first.val>> \o rest
             ELSE FilterMapChildren(Head(children).children, sheet) \o rest

\* children.iter().filter_map(|x| to_styled_node(x, stylesheet)).collect()
FilterMapChildren(children, sheet) ==
    IF children = <<>>
    THEN <<>>
    ELSE LET first == ToStyledNode(Head(children), sheet)
             rest == FilterMapChildren(Tail(children), sheet)
         IN  IF first.some THEN <<first.val>> \o rest ELSE rest

ToStyledNode(n, sheet) ==
    LET props == ResolveProperties(n, sheet)
    IN  IF IsDisplayNone(props)
        THEN None
        ELSE Some(StyledNode(NodeTypeOf(n), StripSpecificity(props),
                             FilterMapChildren(n.children, sheet)))

(***************************************************************************)
(* Inputs of the selector matcher: every string over Chars of at most      *)
(* MaxStrLen characters as attribute content, selector value, class name.  *)
(***************************************************************************)
Chars == {"a", "b", " "}

Strings == UNION {[1..n -> Chars] : n \in 0..MaxStrLen}

MatchTags == {"p", "P"}

MatchAttrMaps ==
    {EmptyMap}
    \cup {MapInsert(EmptyMap, "id", c) : c \in Strings}
    \cup {MapInsert(EmptyMap, "class", c) : c \in Strings}

MatchNodes ==
    {TextNode(1, <<"a">>)}
    \cup {ElementNode(1, t, a, <<>>) : t \in MatchTags, a \in MatchAttrMaps}

MatchSelectors ==
    {UniversalSelector}
    \cup {TypeSelector(t) : t \in MatchTags}
    \cup {AttributeSelector("p", op, a, v) :
            op \in {"Eq", "Contain"}, a \in {"id", "class"}, v \in Strings}
    \cup {ClassSelector(c) : c \in Strings}

IdleMatch ==
    /\ m_selector = UniversalSelector
    /\ m_node = TextNode(1, <<"a">>)
    /\ m_pc = "idle"
    /\ m_result = FALSE

IdleStyle ==
    /\ node = TextNode(1, <<"a">>)
    /\ stylesheet = [rules |-> <<>>]
    /\ pc = "idle"
    /\ cursor = <<1, 1>>
    /\ properties = EmptyMap
    /\ styled = None
    /\ applied = <<>>

IdleSplit ==
    /\ text = <<>>
    /\ width = 0
    /\ offset = 0
    /\ s_pc = "idle"
    /\ gi = 1
    /\ result = <<>>
    /\ curr_width = 0
    /\ prev_index = 0
    /\ curr_index = 0

IdleLayout ==
    /\ l_node = [node_type |-> TextNode(1, <<>>), properties |-> EmptyMap,
                 children |-> <<>>]
    /\ l_area = [x |-> 0, y |-> 0, width |-> 0, height |-> 0]
    /\ l_offset = 0
    /\ l_build = "debug"
    /\ l_pc = "idle"
    /\ l_ci = 1
    /\ l_y = 0
    /\ l_height = 0
    /\ l_objects = <<>>
    /\ l_content_len = 0
    /\ l_width = 0
    /\ l_overflow = FALSE
    /\ l_ret = None

InitMatch ==
    /\ m_selector \in MatchSelectors
    /\ m_node \in MatchNodes
    /\ m_pc = "call"
    /\ m_result = FALSE
    /\ IdleStyle
    /\ IdleSplit
    /\ IdleLayout

\* s.matches(n)
Matches ==
    /\ m_pc = "call"
    /\ m_result' = SelectorMatches(m_selector, m_node)
    /\ m_pc' = "done"
    /\ UNCHANGED <<m_selector, m_node, styleVars, splitVars, layoutVars>>

NextMatch == Matches

SpecMatch == InitMatch /\ [][NextMatch]_vars

(***************************************************************************)
(* Inputs of the style resolver.                                           *)
(***************************************************************************)
StrBar == <<"b", "a", "r">>
StrC == <<"c">>

AttrsNone == EmptyMap
AttrsClass == MapInsert(EmptyMap, "class", StrC)
AttrsFooClass == MapInsert(MapInsert(EmptyMap, "foo", StrBar), "class", StrC)

\* <tag_name, attributes> of the elements of the documents
RootTypes ==
    {<<"div", AttrsClass>>, <<"p", AttrsNone>>, <<"p", AttrsFooClass>>,
     <<"script", AttrsNone>>, <<"b", AttrsNone>>}

ChildTypes == {<<"p", AttrsNone>>, <<"p", AttrsFooClass>>, <<"script", AttrsNone>>}

\* a text; an element without children; an element holding an element
\* (which holds a text) and a text
Documents ==
    {TextNode(1, <<"x">>)}
    \cup {ElementNode(1, r[1], r[2], <<>>) : r \in RootTypes}
    \cup {ElementNode(1, r[1], r[2],
                      <<ElementNode(2, c[1], c[2], <<TextNode(3, <<"x">>)>>),
                        TextNode(4, <<"y">>)>>) :
            r \in RootTypes, c \in ChildTypes}

Selectors ==
    {UniversalSelector, TypeSelector("p"),
     AttributeSelector("p", "Eq", "foo", StrBar), ClassSelector(StrC)}

Declarations ==
    {Declaration("color", "red"), Declaration("color", "blue"),
     Declaration("display", "none"), Declaration("display", "block"),
     Declaration("font-weight", "bold")}

SeqsUpTo(S, lo, hi) == UNION {[1..n -> S] : n \in lo..hi}

\* `sel { decl }`
SimpleRules == {Rule(<<s>>, <<d>>) : s \in Selectors, d \in Declarations}

SimpleStylesheets == {[rules |-> rs] : rs \in SeqsUpTo(SimpleRules, 0, MaxRules)}

StartStyle(n, sheet) ==
    /\ node = n
    /\ stylesheet = sheet
    /\ pc = "scan"
    /\ cursor = NextPair(sheet, n, 1, 1)
    /\ properties = EmptyMap
    /\ styled = None
    /\ applied = <<>>

InitStyle ==
    /\ \E n \in Documents, sheet \in SimpleStylesheets : StartStyle(n, sheet)
    /\ IdleMatch
    /\ IdleSplit
    /\ IdleLayout

(***************************************************************************)
(* to_styled_node(node, stylesheet), step by step.                         *)
(***************************************************************************)
\* one iteration of the inner `for (selector, declaration)` loop
ScanPair ==
    /\ pc = "scan"
    /\ cursor[1] <= Len(stylesheet.rules)
    /\ LET r == stylesheet.rules[cursor[1]]
           sel == r.selectors[cursor[2]]
           decl == r.declarations[cursor[2]]
       IN  /\ properties' = InsertDeclaration(properties, sel, decl)
           /\ applied' = Append(applied,
                                [rule |-> cursor[1], index |-> cursor[2],
                                 specificity |-> Specificity(sel),
                                 name |-> decl.name, value |-> decl.value])
    /\ cursor' = NextPair(stylesheet, node, cursor[1], cursor[2] + 1)
    /\ UNCHANGED <<node, stylesheet, pc, styled, matchVars, splitVars, layoutVars>>

\* the outer loop is over
EndScan ==
    /\ pc = "scan"
    /\ cursor[1] > Len(stylesheet.rules)
    /\ pc' = "display"
    /\ UNCHANGED <<node, stylesheet, cursor, properties, styled, applied, matchVars, splitVars, layoutVars>>

FillDisplay ==
    /\ pc = "display"
    /\ properties' = DefaultDisplay(properties, node)
    /\ pc' = "font-weight"
    /\ UNCHANGED <<node, stylesheet, cursor, styled, applied, matchVars, splitVars, layoutVars>>

FillFontWeight ==
    /\ pc = "font-weight"
    /\ properties' = DefaultFontWeight(properties, node)
    /\ pc' = "return"
    /\ UNCHANGED <<node, stylesheet, cursor, styled, applied, matchVars, splitVars, layoutVars>>

\* return None
Prune ==
    /\ pc = "return"
    /\ IsDisplayNone(properties)
    /\ styled' = None
    /\ pc' = "done"
    /\ UNCHANGED <<node, stylesheet, cursor, properties, applied, matchVars, splitVars, layoutVars>>

\* the orders in which properties.into_iter() can yield the entries of the
\* map: a HashMap iterates in an arbitrary order
Orders(props) ==
    {o \in [1..Cardinality(DOMAIN props) -> DOMAIN props] :
        \A i, j \in DOMAIN o : i # j => o[i] # o[j]}

\* Mutant of CollectInOrder: only the entry yielded last is kept.
CollectInOrderLastOnly(props, order) ==
    IF order = <<>>
    THEN EmptyMap
    ELSE MapInsert(EmptyMap, order[Len(order)], props[order[Len(order)]].value)

\* .map(|(k, v)| (k, v.1)).collect() over the entries yielded in `order`
RECURSIVE CollectInOrder(_, _)
CollectInOrder(props, order) ==
    IF order = <<>>
    THEN EmptyMap
    ELSE MapInsert(CollectInOrder(props, SubSeq(order, 1, Len(order) - 1)),
                   order[Len(order)], props[order[Len(order)]].value)

\* the recursion into the children, and Some(StyledNode { .. })
Build ==
    /\ pc = "return"
    /\ ~IsDisplayNone(properties)
    /\ \E order \in Orders(properties) :
          styled' = Some(StyledNode(NodeTypeOf(node),
                                    CollectInOrder(properties, order),
                                    FilterMapChildren(node.children, stylesheet)))
    /\ pc' = "done"
    /\ UNCHANGED <<node, stylesheet, cursor, properties, applied, matchVars, splitVars, layoutVars>>

NextStyle ==
    \/ ScanPair
    \/ EndScan
    \/ FillDisplay
    \/ FillFontWeight
    \/ Prune
    \/ Build

Spec == InitStyle /\ [][NextStyle]_vars

(***************************************************************************)
(* The user-agent defaults: an element of every tag the code names and of  *)
(* some it does not, under a few rules.                                    *)
(***************************************************************************)
DefaultTags ==
    DisplayNoneTags \cup BoldTags \cup {"p", "div", "span", "B", "SCRIPT", ""}

DefaultDocuments ==
    {TextNode(1, <<"x">>)}
    \cup {ElementNode(1, t, AttrsNone, <<>>) : t \in DefaultTags}

DefaultRules ==
    {Rule(<<s>>, <<d>>) :
        s \in {UniversalSelector, TypeSelector("p")},
        d \in {Declaration("color", "red"), Declaration("display", "block"),
               Declaration("font-weight", "bold")}}

DefaultStylesheets == {[rules |-> rs] : rs \in SeqsUpTo(DefaultRules, 0, MaxRules)}

InitDefaults ==
    /\ \E n \in DefaultDocuments, sheet \in DefaultStylesheets : StartStyle(n, sheet)
    /\ IdleMatch
    /\ IdleSplit
    /\ IdleLayout

SpecDefaults == InitDefaults /\ [][NextStyle]_vars

(***************************************************************************)
(* Rules of every shape: 0..MaxSelectors selectors and 0..MaxDeclarations  *)
(* declarations, alone or after `p {color:blue}`.                          *)
(***************************************************************************)
PairingDocuments ==
    {TextNode(1, <<"x">>),
     ElementNode(1, "p", AttrsNone, <<>>),
     ElementNode(1, "p", AttrsFooClass, <<>>)}

PairingDeclarations ==
    {Declaration("color", "red"), Declaration("color", "blue"),
     Declaration("display", "none")}

GeneralRules ==
    {Rule(ss, ds) : ss \in SeqsUpTo(Selectors, 0, MaxSelectors),
                    ds \in SeqsUpTo(PairingDeclarations, 0, MaxDeclarations)}

PairingStylesheets ==
    {[rules |-> pre \o <<r>>] :
        pre \in {<<>>, <<Rule(<<TypeSelector("p")>>, <<Declaration("color", "blue")>>)>>},
        r \in GeneralRules}

InitPairing ==
    /\ \E n \in PairingDocuments, sheet \in PairingStylesheets : StartStyle(n, sheet)
    /\ IdleMatch
    /\ IdleSplit
    /\ IdleLayout

SpecPairing == InitPairing /\ [][NextStyle]_vars

(***************************************************************************)
(* layout.rs: split_string_by_width.                                       *)
(*                                                                         *)
(* A text is the sequence of its grapheme clusters, as text.graphemes(true)*)
(* yields them; a cluster has a display width (grapheme.width()) and a     *)
(* length in bytes (grapheme.len()).  The bytes of the text are numbered   *)
(* from 0, and a slice &text[a..b] is the bytes a..b-1.                    *)
(***************************************************************************)
Cluster(ch, w, len) == [ch |-> ch, width |-> w, len |-> len]

\* "a"; a CJK character such as U+3053; a combining mark on its own
Clusters == {Cluster("a", 1, 1), Cluster("ko", 2, 3), Cluster("mark", 0, 2)}

ClusterBytes(g) == [k \in 1..g.len |-> <<g.ch, k>>]

RECURSIVE Bytes(_)
Bytes(t) == IF t = <<>> THEN <<>> ELSE ClusterBytes(Head(t)) \o Bytes(Tail(t))

\* &text[from..to]
Slice(bytes, from, to) == SubSeq(bytes, from + 1, to)

\* Mutant of LoopBody: `>=` for `>`, a line is closed when it is just full.
LoopBodyBreakWhenFull(l, g, w, bytes) ==
    IF l.curr_width + g.width >= w
    THEN [result |-> Append(l.result, Slice(bytes, l.prev_index, l.curr_index)),
          prev_index |-> l.curr_index,
          curr_width |-> g.width,
          curr_index |-> l.curr_index + g.len]
    ELSE [result |-> l.result,
          prev_index |-> l.prev_index,
          curr_width |-> l.curr_width + g.width,
          curr_index |-> l.curr_index + g.len]

\* Mutant of LoopBody: a new line starts with curr_width 0.
LoopBodyForgetWidth(l, g, w, bytes) ==
    IF l.curr_width + g.width > w
    THEN [result |-> Append(l.result, Slice(bytes, l.prev_index, l.curr_index)),
          prev_index |-> l.curr_index,
          curr_width |-> 0,
          curr_index |-> l.curr_index + g.len]
    ELSE [result |-> l.result,
          prev_index |-> l.prev_index,
          curr_width |-> l.curr_width + g.width,
          curr_index |-> l.curr_index + g.len]

\* the body of `for grapheme in text.graphemes(true)`, on the locals l
LoopBody(l, g, w, bytes) ==
    IF l.curr_width + g.width > w
    THEN [result |-> Append(l.result, Slice(bytes, l.prev_index, l.curr_index)),
          prev_index |-> l.curr_index,
          curr_width |-> g.width,
          curr_index |-> l.curr_index + g.len]
    ELSE [result |-> l.result,
          prev_index |-> l.prev_index,
          curr_width |-> l.curr_width + g.width,
          curr_index |-> l.curr_index + g.len]

\* the locals before the loop
SplitLocals(off) ==
    [result |-> <<>>, curr_width |-> off, prev_index |-> 0, curr_index |-> 0]

RECURSIVE SplitLoop(_, _, _, _, _)
SplitLoop(l, t, i, w, bytes) ==
    IF i > Len(t) THEN l ELSE SplitLoop(LoopBody(l, t[i], w, bytes), t, i + 1, w, bytes)

\* Mutant of LastPush: the rest of the text is not pushed.
LastPushNothing(l, bytes) == l.result

\* result.push(&text[prev_index..]); result
LastPush(l, bytes) == Append(l.result, Slice(bytes, l.prev_index, Len(bytes)))

SplitStringByWidth(t, w, off) ==
    LastPush(SplitLoop(SplitLocals(off), t, 1, w, Bytes(t)), Bytes(t))

Texts == UNION {[1..n -> Clusters] : n \in 0..MaxTextLen}

InitSplit ==
    /\ text \in Texts
    /\ width \in 0..MaxWidth
    /\ offset \in 0..MaxOffset
    /\ s_pc = "loop"
    /\ gi = 1
    /\ result = SplitLocals(offset).result
    /\ curr_width = SplitLocals(offset).curr_width
    /\ prev_index = SplitLocals(offset).prev_index
    /\ curr_index = SplitLocals(offset).curr_index
    /\ IdleMatch
    /\ IdleStyle
    /\ IdleLayout

\* one iteration of the loop
SplitIterate ==
    /\ s_pc = "loop"
    /\ gi <= Len(text)
    /\ LET l == LoopBody([result |-> result, curr_width |-> curr_width,
                          prev_index |-> prev_index, curr_index |-> curr_index],
                         text[gi], width, Bytes(text))
       IN  /\ result' = l.result
           /\ curr_width' = l.curr_width
           /\ prev_index' = l.prev_index
           /\ curr_index' = l.curr_index
    /\ gi' = gi + 1
    /\ UNCHANGED <<text, width, offset, s_pc, matchVars, styleVars,
                   layoutVars>>

\* the loop is over: the last push and the return
SplitReturn ==
    /\ s_pc = "loop"
    /\ gi > Len(text)
    /\ result' = LastPush([result |-> result, curr_width |-> curr_width,
                           prev_index |-> prev_index, curr_index |-> curr_index],
                          Bytes(text))
    /\ s_pc' = "done"
    /\ UNCHANGED <<text, width, offset, gi, curr_width, prev_index, curr_index,
                   matchVars, styleVars, layoutVars>>

NextSplit == SplitIterate \/ SplitReturn

SpecSplit == InitSplit /\ [][NextSplit]_vars

(***************************************************************************)
(* Rectangles and 16-bit arithmetic.  Rect's fields are u16; `+` on them   *)
(* panics on overflow in a build with overflow checks and wraps in one     *)
(* without.  The operators below compute the wrapped value and say, apart, *)
(* whether an overflow has happened.                                       *)
(***************************************************************************)
U16Max == 65535

Rect(x, y, w, h) == [x |-> x, y |-> y, width |-> w, height |-> h]

\* the u16 that a build without overflow checks stores for n; also `n as u16`
Wrap(n) == (n + U16Max + 1) % (U16Max + 1)

Overflows(n) == n > U16Max \/ n < 0

\* what a call hands back: the box, whether a u16 operation overflowed on
\* the way, and whether `% area.width` or `/ area.width` divided by zero
Ret(obj, ovf, divzero) == [obj |-> obj, ovf |-> ovf, divzero |-> divzero]

(***************************************************************************)
(* text_to_object(text, area, offset).                                     *)
(***************************************************************************)
\* grapheme.width() of the cluster a byte belongs to
WidthOfCluster(ch) == (CHOOSE g \in Clusters : g.ch = ch).width

\* UnicodeWidthStr::width(d) of a slice d
RECURSIVE StrWidth(_)
StrWidth(d) ==
    IF d = <<>> THEN 0
    ELSE (IF Head(d)[2] = 1 THEN WidthOfCluster(Head(d)[1]) ELSE 0)
         + StrWidth(Tail(d))

\* Mutant of TextLoopBody: the leaf's width is the width of its last line.
TextLoopBodyLastLine(l, d, area) ==
    LET len == Wrap(StrWidth(d))
    IN  [texts |-> Append(l.texts,
                          [area |-> Rect(area.x, l.y, len, 1), data |-> d]),
         y |-> Wrap(l.y + 1),
         content_len |-> len,
         ovf |-> l.ovf \/ Overflows(l.y + 1)]

\* the body of `for d in split_string_by_width(..)`, on the locals l
TextLoopBody(l, d, area) ==
    LET len == Wrap(StrWidth(d))
    IN  [texts |-> Append(l.texts,
                          [area |-> Rect(area.x, l.y, len, 1), data |-> d]),
         y |-> Wrap(l.y + 1),
         content_len |-> Wrap(l.content_len + len),
         ovf |-> l.ovf \/ Overflows(l.y + 1) \/ Overflows(l.content_len + len)]

TextLocals(area) == [texts |-> <<>>, y |-> area.y, content_len |-> 0, ovf |-> FALSE]

RECURSIVE TextLoop(_, _, _, _)
TextLoop(l, lines, i, area) ==
    IF i > Len(lines) THEN l
    ELSE TextLoop(TextLoopBody(l, lines[i], area), lines, i + 1, area)

\* Mutant of TextToObject: the leaf is as high as it has lines.
TextToObjectLineCount(t, area, off) ==
    LET l == TextLoop(TextLocals(area),
                      SplitStringByWidth(t, area.width, off), 1, area)
    IN  Ret([area |-> Rect(area.x, area.y, l.content_len, Len(l.texts)),
             ty |-> "Texts", texts |-> l.texts],
            l.ovf, FALSE)

TextToObject(t, area, off) ==
    LET l == TextLoop(TextLocals(area),
                      SplitStringByWidth(t, area.width, off), 1, area)
    IN  Ret([area |-> Rect(area.x, area.y, l.content_len, 1),
             ty |-> "Texts", texts |-> l.texts],
            l.ovf, FALSE)

(***************************************************************************)
(* inline_node, children_to_object(node, area, offset) and                 *)
(* node_to_object(node, area, offset).  A styled node is a StyledNode      *)
(* record whose text, if it is a text, is a sequence of clusters.          *)
(***************************************************************************)
InlineNode(n) ==
    IF n.node_type.type = "Element"
    THEN MapGet(n.properties, "display") = Some("inline")
    ELSE TRUE

RECURSIVE NodeToObject(_, _, _)

\* Mutant of ChildRect: every child is placed at column area.x.
ChildRectAtAreaX(l, area) == Rect(area.x, l.y, area.width, area.height)

\* `let area = Rect { x: area.x + (content_len % area.width), y, .. }`: the
\* placement rectangle of a child, which shadows the parameter `area` in the
\* rest of the loop body
ChildRect(l, area) ==
    Rect(Wrap(area.x + (l.content_len % area.width)), l.y, area.width, area.height)

\* Mutant of ChildOffset: a child continues at the running content_len.
ChildOffsetRunning(l, off) == l.content_len

\* the `offset` argument of node_to_object(child, area, offset)
ChildOffset(l, off) == off

\* Mutant of ChildLoopBody: content_len is kept after a BLOCK child.
ChildLoopBodyKeepLen(l, child, area, off) ==
    IF l.divzero THEN l
    ELSE IF area.width = 0 THEN [l EXCEPT !.divzero = TRUE]
    ELSE
      LET x == area.x + (l.content_len % area.width)
          rect == ChildRect(l, area)
          r == NodeToObject(child, rect, ChildOffset(l, off))
          object == r.obj
          sum == l.content_len + object.area.width
          content_len == Wrap(sum)
          ovf == l.ovf \/ Overflows(x) \/ r.ovf \/ Overflows(sum)
      IN  IF r.divzero THEN [l EXCEPT !.divzero = TRUE]
          ELSE IF ~InlineNode(child)
          THEN [y |-> Wrap(l.y + object.area.height),
                height |-> Wrap(l.height + object.area.height),
                width |-> IF l.width < content_len THEN content_len ELSE l.width,
                content_len |-> content_len,
                objects |-> Append(l.objects, object),
                ovf |-> ovf \/ Overflows(l.y + object.area.height)
                            \/ Overflows(l.height + object.area.height),
                divzero |-> FALSE]
          ELSE [y |-> Wrap(rect.y + content_len \div rect.width),
                height |-> Wrap(Wrap(content_len + rect.width) - 1) \div rect.width,
                width |-> l.width,
                content_len |-> content_len,
                objects |-> Append(l.objects, object),
                ovf |-> ovf \/ Overflows(rect.y + content_len \div rect.width)
                            \/ Overflows(content_len + rect.width)
                            \/ Overflows(Wrap(content_len + rect.width) - 1),
                divzero |-> FALSE]

\* the body of `for child in node.children.iter()`, on the locals l
ChildLoopBody(l, child, area, off) ==
    IF l.divzero THEN l
    ELSE IF area.width = 0 THEN [l EXCEPT !.divzero = TRUE]
    ELSE
      LET x == area.x + (l.content_len % area.width)
          rect == ChildRect(l, area)
          r == NodeToObject(child, rect, ChildOffset(l, off))
          object == r.obj
          sum == l.content_len + object.area.width
          content_len == Wrap(sum)
          ovf == l.ovf \/ Overflows(x) \/ r.ovf \/ Overflows(sum)
      IN  IF r.divzero THEN [l EXCEPT !.divzero = TRUE]
          ELSE IF ~InlineNode(child)
          THEN [y |-> Wrap(l.y + object.area.height),
                height |-> Wrap(l.height + object.area.height),
                width |-> IF l.width < content_len THEN content_len ELSE l.width,
                content_len |-> 0,
                objects |-> Append(l.objects, object),
                ovf |-> ovf \/ Overflows(l.y + object.area.height)
                            \/ Overflows(l.height + object.area.height),
                divzero |-> FALSE]
          ELSE [y |-> Wrap(rect.y + content_len \div rect.width),
                height |-> Wrap(Wrap(content_len + rect.width) - 1) \div rect.width,
                width |-> l.width,
                content_len |-> content_len,
                objects |-> Append(l.objects, object),
                ovf |-> ovf \/ Overflows(rect.y + content_len \div rect.width)
                            \/ Overflows(content_len + rect.width)
                            \/ Overflows(Wrap(content_len + rect.width) - 1),
                divzero |-> FALSE]

\* the locals before the loop
ChildLocals(area, off) ==
    [y |-> area.y, height |-> 0, objects |-> <<>>, content_len |-> Wrap(off),
     width |-> 0, ovf |-> FALSE, divzero |-> FALSE]

\* after the loop: the last `if width < content_len` and the box
ChildReturn(l, area) ==
    Ret([area |-> Rect(area.x, area.y,
                       IF l.width < l.content_len THEN l.content_len ELSE l.width,
                       l.height),
         ty |-> "Block", children |-> l.objects],
        l.ovf, l.divzero)

RECURSIVE ChildLoop(_, _, _, _, _)
ChildLoop(l, children, i, area, off) ==
    IF i > Len(children) THEN l
    ELSE ChildLoop(ChildLoopBody(l, children[i], area, off),
                   children, i + 1, area, off)

ChildrenToObject(n, area, off) ==
    ChildReturn(ChildLoop(ChildLocals(area, off), n.children, 1, area, off),
                area)

\* Mutant of NodeToObject: an element with a single child is replaced by the
\* box of that child.
NodeToObjectFlatten(n, area, off) ==
    IF n.node_type.type = "Text"
    THEN TextToObject(n.node_type.data, area, off)
    ELSE IF Len(n.children) = 1
         THEN NodeToObject(n.children[1], area, off)
         ELSE ChildrenToObject(n, area, off)

NodeToObject(n, area, off) ==
    IF n.node_type.type = "Text"
    THEN TextToObject(n.node_type.data, area, off)
    ELSE ChildrenToObject(n, area, off)

(***************************************************************************)
(* node_to_object(node, area, offset), step by step: the call on a text    *)
(* is one step, the call on an element is the loop of children_to_object   *)
(* child by child.  A build with overflow checks panics at the first       *)
(* overflow; every build panics at a division by zero.                     *)
(***************************************************************************)
Builds == {"debug", "release"}

EmptySheet == [rules |-> <<>>]

\* strong { display: inline; }
InlineStrongSheet ==
    [rules |-> <<Rule(<<TypeSelector("strong")>>,
                      <<Declaration("display", "inline")>>)>>]

StartLayout(n, area, off, build) ==
    /\ l_node = n
    /\ l_area = area
    /\ l_offset = off
    /\ l_build = build
    /\ l_pc = "call"
    /\ l_ci = 1
    /\ l_y = 0
    /\ l_height = 0
    /\ l_objects = <<>>
    /\ l_content_len = 0
    /\ l_width = 0
    /\ l_overflow = FALSE
    /\ l_ret = None

\* the locals of children_to_object
Locals ==
    [y |-> l_y, height |-> l_height, objects |-> l_objects,
     content_len |-> l_content_len, width |-> l_width, ovf |-> l_overflow,
     divzero |-> FALSE]

SetLocals(l) ==
    /\ l_y' = l.y
    /\ l_height' = l.height
    /\ l_objects' = l.objects
    /\ l_content_len' = l.content_len
    /\ l_width' = l.width
    /\ l_overflow' = l.ovf

Panics(r) == r.divzero \/ (l_build = "debug" /\ r.ovf)

\* NodeType::Text(dom::Text { data }) => text_to_object(data, area, offset)
LayoutText ==
    /\ l_pc = "call"
    /\ l_node.node_type.type = "Text"
    /\ LET r == TextToObject(l_node.node_type.data, l_area, l_offset)
       IN  /\ l_overflow' = r.ovf
           /\ IF Panics(r)
              THEN l_pc' = "panic" /\ l_ret' = None
              ELSE l_pc' = "done" /\ l_ret' = Some(r.obj)
    /\ UNCHANGED <<l_node, l_area, l_offset, l_build, l_ci, l_y, l_height,
                   l_objects, l_content_len, l_width,
                   matchVars, styleVars, splitVars>>

\* NodeType::Element(_) => children_to_object(node, area, offset): the locals
LayoutEnter ==
    /\ l_pc = "call"
    /\ l_node.node_type.type = "Element"
    /\ SetLocals(ChildLocals(l_area, l_offset))
    /\ l_pc' = "loop"
    /\ UNCHANGED <<l_node, l_area, l_offset, l_build, l_ci, l_ret,
                   matchVars, styleVars, splitVars>>

\* one iteration of `for child in node.children.iter()`
LayoutChild ==
    /\ l_pc = "loop"
    /\ l_ci <= Len(l_node.children)
    /\ LET l == ChildLoopBody(Locals, l_node.children[l_ci], l_area, l_offset)
       IN  IF Panics(l)
           THEN /\ l_pc' = "panic"
                /\ l_overflow' = l.ovf
                /\ UNCHANGED <<l_ci, l_y, l_height, l_objects, l_content_len,
                               l_width>>
           ELSE /\ SetLocals(l)
                /\ l_ci' = l_ci + 1
                /\ l_pc' = "loop"
    /\ UNCHANGED <<l_node, l_area, l_offset, l_build, l_ret,
                   matchVars, styleVars, splitVars>>

\* the loop is over: the box of the element
LayoutReturn ==
    /\ l_pc = "loop"
    /\ l_ci > Len(l_node.children)
    /\ l_ret' = Some(ChildReturn(Locals, l_area).obj)
    /\ l_pc' = "done"
    /\ UNCHANGED <<l_node, l_area, l_offset, l_build, l_ci, l_y, l_height,
                   l_objects, l_content_len, l_width, l_overflow,
                   matchVars, styleVars, splitVars>>

(***************************************************************************)
(* Text leaves: every text over Clusters of at most MaxTextLen clusters,   *)
(* laid out alone.                                                         *)
(***************************************************************************)
TextOrigins == {<<0, 0>>, <<3, 6>>, <<0, U16Max>>}

TextAreas == {Rect(o[1], o[2], w, 10) : o \in TextOrigins, w \in 0..MaxWidth}

InitText ==
    /\ \E t \in Texts, area \in TextAreas, off \in 0..MaxOffset, build \in Builds :
          StartLayout(ToStyledNode(TextNode(1, t), EmptySheet).val,
                      area, off, build)
    /\ IdleMatch
    /\ IdleStyle
    /\ IdleSplit

NextText == LayoutText

SpecText == InitText /\ [][NextText]_vars

(***************************************************************************)
(* Trees: a text, or an element of at most MaxChildren children, each a    *)
(* text, a <div> holding a text or a <strong> holding a text, styled with  *)
(* the empty stylesheet or with `strong { display: inline; }`.             *)
(***************************************************************************)
\* a zero-width cluster alone (such as U+200B), "a" and "a" * MaxLayoutTextLen
LayoutTexts ==
    {<<Cluster("mark", 0, 2)>>}
    \cup {[i \in 1..n |-> Cluster("a", 1, 1)] : n \in {1, MaxLayoutTextLen}}

ChildKinds == {"text", "div", "strong"}

LayoutChildNode(id, kind, t) ==
    IF kind = "text" THEN TextNode(id, t)
    ELSE ElementNode(id, kind, EmptyMap, <<TextNode(id + 1, t)>>)

LayoutDocuments ==
    {TextNode(1, t) : t \in LayoutTexts}
    \cup {ElementNode(1, "div", EmptyMap,
                      [i \in DOMAIN ks |-> LayoutChildNode(2 * i, ks[i][1], ks[i][2])]) :
            ks \in SeqsUpTo(ChildKinds \X LayoutTexts, 0, MaxChildren)}

LayoutWidths == (0..MaxLayoutWidth) \cup {U16Max}

LayoutAreas ==
    {Rect(o[1], o[2], w, 40) : o \in {<<0, 0>>, <<2, 1>>}, w \in LayoutWidths}

InitLayout ==
    /\ \E d \in LayoutDocuments, sheet \in {EmptySheet, InlineStrongSheet},
          area \in LayoutAreas, off \in 0..MaxLayoutOffset, build \in Builds :
          StartLayout(ToStyledNode(d, sheet).val, area, off, build)
    /\ IdleMatch
    /\ IdleStyle
    /\ IdleSplit

NextLayout == LayoutText \/ LayoutEnter \/ LayoutChild \/ LayoutReturn

SpecLayout == InitLayout /\ [][NextLayout]_vars

(***************************************************************************)
(* Properties of the cascade.                                              *)
(***************************************************************************)
Scanned == pc \in {"display", "font-weight", "return", "done"}

Rules == stylesheet.rules

\* rule i is `sel { name: value }` and matches the node
SingleMatched(i) ==
    /\ Len(Rules[i].selectors) = 1
    /\ Len(Rules[i].declarations) = 1
    /\ SelectorMatches(Rules[i].selectors[1], node)

\* no matched rule other than i and j declares `name`
OnlyDeclaredBy(name, i, j) ==
    \A k \in 1..Len(Rules) :
        (k \notin {i, j} /\ RuleMatches(Rules[k], node)) =>
            \A d \in 1..ZipLen(Rules[k]) : Rules[k].declarations[d].name # name

CandidatesOf(app, name) == {k \in 1..Len(app) : app[k].name = name}

\* the last of the candidates of highest specificity
Winner(app, name) ==
    CHOOSE k \in CandidatesOf(app, name) :
        \A j \in CandidatesOf(app, name) :
            \/ app[j].specificity < app[k].specificity
            \/ (app[j].specificity = app[k].specificity /\ j <= k)

Entry(c) == [specificity |-> c.specificity, value |-> c.value]

\* C2: a candidate overwrites the recorded value of its property exactly when
\* its specificity is >= the recorded one (an unrecorded property is always
\* recorded), and nothing else of the map changes; so the recorded value of a
\* property is always that of the last of its candidates of highest
\* specificity: ties go to the later one, a lower later one never replaces.
C2_OverwriteIffGreaterOrEqual ==
    [][ (pc = "scan" /\ applied' # applied) =>
          LET c == applied'[Len(applied')]
          IN  /\ IF c.name \in DOMAIN properties
                    /\ c.specificity < properties[c.name].specificity
                 THEN properties' = properties
                 ELSE properties' = MapInsert(properties, c.name, Entry(c))
              /\ \A name \in DOMAIN properties' :
                    properties'[name] = Entry(applied'[Winner(applied', name)])
      ]_vars

\* p[foo=bar] {color:red} then .c {color:blue}: both weigh 10, the later wins
C2_Witness ==
    /\ pc = "display"
    /\ Len(applied) = 2
    /\ Rules[1].selectors[1].kind = "Attribute"
    /\ Rules[2].selectors[1].kind = "Class"
    /\ applied[1].name = "color" /\ applied[2].name = "color"
    /\ applied[1].value = "red" /\ applied[2].value = "blue"
    /\ properties["color"] = [specificity |-> 10, value |-> "blue"]

\* the addresses of the nodes of a (sequence of) styled node(s)
RECURSIVE StyledIds(_)
StyledIds(sns) ==
    IF sns = <<>>
    THEN {}
    ELSE {Head(sns).node_type.id}
         \cup StyledIds(Head(sns).children) \cup StyledIds(Tail(sns))

RECURSIVE StyledDisplays(_)
StyledDisplays(sns) ==
    IF sns = <<>>
    THEN {}
    ELSE (IF "display" \in DOMAIN Head(sns).properties
          THEN {Head(sns).properties["display"]} ELSE {})
         \cup StyledDisplays(Head(sns).children) \cup StyledDisplays(Tail(sns))

\* the addresses of the nodes of a (sequence of) document node(s)
RECURSIVE NodeIds(_)
NodeIds(ns) ==
    IF ns = <<>>
    THEN {}
    ELSE {Head(ns).id} \cup NodeIds(Head(ns).children) \cup NodeIds(Tail(ns))

\* the nodes whose own display resolves to "none", with their descendants
RECURSIVE HiddenIds(_, _)
HiddenIds(ns, sheet) ==
    IF ns = <<>>
    THEN {}
    ELSE (IF IsDisplayNone(ResolveProperties(Head(ns), sheet))
          THEN NodeIds(<<Head(ns)>>)
          ELSE HiddenIds(Head(ns).children, sheet))
         \cup HiddenIds(Tail(ns), sheet)

StyledRoot == IF styled.some THEN <<styled.val>> ELSE <<>>

\* C3: a node whose display resolves to "none" yields None, and neither it
\* nor any of its descendants is in the styled tree, whatever matches the
\* descendants; no node of a styled tree has display "none".
C3_DisplayNonePrunesSubtree ==
    pc = "done" =>
        /\ IsDisplayNone(properties) => styled = None
        /\ HiddenIds(<<node>>, stylesheet) \cap StyledIds(StyledRoot) = {}
        /\ "none" \notin StyledDisplays(StyledRoot)

\* <div class="c"><p>x</p>y</div> with .c {display:none} p {display:block}
C3_Witness ==
    /\ pc = "done"
    /\ node.type = "Element" /\ node.tag_name = "div"
    /\ Len(node.children) = 2
    /\ node.children[1].tag_name = "p"
    /\ Rules = <<Rule(<<ClassSelector(StrC)>>, <<Declaration("display", "none")>>),
                 Rule(<<TypeSelector("p")>>, <<Declaration("display", "block")>>)>>
    /\ ~IsDisplayNone(ResolveProperties(node.children[1], stylesheet))
    /\ styled = None

\* C4: when an applied author declaration sets display (or font-weight), the
\* resolved value is an author value, also when its specificity is 0 and the
\* tag is one that defaults to display:none; such an element is kept.
C4_DefaultsNeverOverrideAuthor ==
    pc \in {"return", "done"} =>
        /\ \A name \in {"display", "font-weight"} :
              CandidatesOf(applied, name) # {} =>
                  /\ name \in DOMAIN properties
                  /\ \E k \in CandidatesOf(applied, name) :
                        properties[name] = Entry(applied[k])
        /\ ( /\ pc = "done"
             /\ CandidatesOf(applied, "display") # {}
             /\ \A k \in CandidatesOf(applied, "display") : applied[k].value # "none" )
           => styled.some

\* <script> with * {display:block}: kept, display block
C4_Witness ==
    /\ pc = "done"
    /\ node.type = "Element" /\ node.tag_name = "script"
    /\ Rules = <<Rule(<<UniversalSelector>>, <<Declaration("display", "block")>>)>>
    /\ properties["display"] = [specificity |-> 0, value |-> "block"]
    /\ styled.some /\ styled.val.properties["display"] = "block"

\* C5: for an Element with no applied author declaration of the property,
\* display is "none" iff the tag is one of the fifteen listed and "block"
\* otherwise, font-weight is "bold" iff the tag is b or strong and "normal"
\* otherwise; a Text node's map holds the author-applied properties only.
C5_UserAgentDefaults ==
    pc \in {"return", "done"} =>
        IF node.type = "Element"
        THEN /\ CandidatesOf(applied, "display") = {} =>
                  /\ "display" \in DOMAIN properties
                  /\ properties["display"].value =
                        IF node.tag_name \in
                             {"area", "base", "basefont", "datalist", "head",
                              "link", "meta", "noembed", "noframes", "param",
                              "rp", "script", "style", "template", "title"}
                        THEN "none" ELSE "block"
             /\ CandidatesOf(applied, "font-weight") = {} =>
                  /\ "font-weight" \in DOMAIN properties
                  /\ properties["font-weight"].value =
                        IF node.tag_name \in {"b", "strong"}
                        THEN "bold" ELSE "normal"
        ELSE DOMAIN properties = {applied[k].name : k \in 1..Len(applied)}

\* a Text node that no rule sets anything on: an empty property map
C5_Witness ==
    /\ pc = "done"
    /\ node.type = "Text"
    /\ Len(Rules) = 1 /\ Rules[1].selectors[1].kind = "Type"
    /\ applied = <<>>
    /\ styled.some /\ DOMAIN styled.val.properties = {}

\* the candidates the claim lists: for each rule that matches, in order, the
\* pairs (selector i, declaration i) up to the shorter list
RECURSIVE PositionalPairs(_, _, _)
PositionalPairs(rules, n, ri) ==
    IF ri > Len(rules)
    THEN <<>>
    ELSE (IF \E s \in 1..Len(rules[ri].selectors) :
                SelectorMatches(rules[ri].selectors[s], n)
          THEN [i \in 1..Min(Len(rules[ri].selectors), Len(rules[ri].declarations)) |->
                   [rule |-> ri, index |-> i,
                    specificity |-> Specificity(rules[ri].selectors[i]),
                    name |-> rules[ri].declarations[i].name,
                    value |-> rules[ri].declarations[i].value]]
          ELSE <<>>)
         \o PositionalPairs(rules, n, ri + 1)

\* C6: the candidates of a rule that matches are exactly the pairs
\* (selector i, declaration i), i up to the shorter list, declaration i
\* weighted with the specificity of selector i whether or not selector i
\* matches; a rule that does not match contributes nothing.
C6_PositionalPairing ==
    Scanned => applied = PositionalPairs(Rules, node, 1)

\* <p> (no class) under `.c, p {color:red; color:blue}`: red is recorded with
\* the weight 10 of .c, which does not match, and blue (weight 1) loses
C6_Witness ==
    /\ pc = "display"
    /\ node.type = "Element" /\ node.attributes = AttrsNone
    /\ Len(Rules) = 1
    /\ Rules[1].selectors = <<ClassSelector(StrC), TypeSelector("p")>>
    /\ ~SelectorMatches(Rules[1].selectors[1], node)
    /\ Len(applied) = 2
    /\ applied[1].value = "red" /\ applied[2].value = "blue"
    /\ properties["color"] = [specificity |-> 10, value |-> "red"]

(***************************************************************************)
(* Properties of the selector matcher.                                     *)
(***************************************************************************)
\* v is one of the whitespace-separated tokens of c: v is not empty, holds
\* no whitespace, and occurs in c between whitespace or the ends of c
IsTokenOf(v, c) ==
    /\ v # <<>>
    /\ \A k \in 1..Len(v) : ~IsAsciiWhitespace(v[k])
    /\ \E i \in 1..Len(c) :
          /\ i + Len(v) - 1 <= Len(c)
          /\ SubSeq(c, i, i + Len(v) - 1) = v
          /\ (i = 1 \/ IsAsciiWhitespace(c[i - 1]))
          /\ (i + Len(v) - 1 = Len(c) \/ IsAsciiWhitespace(c[i + Len(v)]))

\* C7: an Attribute selector matches iff the node is an Element of equal
\* tag_name that has the attribute and either op is Eq and the content equals
\* value, or op is Contain and value is one of the whitespace-separated
\* tokens of the content.
C7_AttributeSelectorMatches ==
    (m_pc = "done" /\ m_selector.kind = "Attribute") =>
        m_result =
            ( /\ m_node.type = "Element"
              /\ m_node.tag_name = m_selector.tag_name
              /\ m_selector.attribute \in DOMAIN m_node.attributes
              /\ \/ /\ m_selector.op = "Eq"
                    /\ m_node.attributes[m_selector.attribute] = m_selector.value
                 \/ /\ m_selector.op = "Contain"
                    /\ IsTokenOf(m_selector.value,
                                 m_node.attributes[m_selector.attribute]) )

\* p[id~=b] matches <p id="a b">
C7_Witness ==
    /\ m_pc = "done"
    /\ m_selector = AttributeSelector("p", "Contain", "id", <<"b">>)
    /\ m_node.type = "Element" /\ m_node.tag_name = "p"
    /\ m_node.attributes = MapInsert(EmptyMap, "id", <<"a", " ", "b">>)
    /\ m_result = TRUE

\* C8: a Class selector matches iff the node is an Element that has a class
\* attribute whose whole value equals class_name; an element whose class
\* holds several tokens is matched by the selector of none of them.
C8_ClassSelectorMatches ==
    (m_pc = "done" /\ m_selector.kind = "Class") =>
        /\ m_result =
              ( /\ m_node.type = "Element"
                /\ "class" \in DOMAIN m_node.attributes
                /\ m_node.attributes["class"] = m_selector.class_name )
        /\ ( /\ m_node.type = "Element"
             /\ "class" \in DOMAIN m_node.attributes
             /\ Len(SplitAsciiWhitespace(m_node.attributes["class"])) >= 2
             /\ IsTokenOf(m_selector.class_name, m_node.attributes["class"]) )
           => m_result = FALSE

\* .a does not match <p class="a b">
C8_Witness ==
    /\ m_pc = "done"
    /\ m_selector = ClassSelector(<<"a">>)
    /\ m_node.type = "Element"
    /\ m_node.attributes = MapInsert(EmptyMap, "class", <<"a", " ", "b">>)
    /\ m_result = FALSE

\* C9: a Text node is matched by Universal and by no Type, Attribute or Class
\* selector; Universal matches every node; a Type selector matches exactly
\* the Elements whose tag_name is the same string, case included.
C9_TextAndTypeMatching ==
    m_pc = "done" =>
        /\ m_node.type = "Text" => (m_result = (m_selector.kind = "Universal"))
        /\ m_selector.kind = "Universal" => m_result = TRUE
        /\ m_selector.kind = "Type" =>
              m_result = ( /\ m_node.type = "Element"
                           /\ m_node.tag_name = m_selector.tag_name )
        /\ ( /\ m_selector.kind = "Type" /\ m_node.type = "Element"
             /\ {m_selector.tag_name, m_node.tag_name} = {"p", "P"} )
           => m_result = FALSE

\* the selector p does not match <P>
C9_Witness ==
    /\ m_pc = "done"
    /\ m_selector = TypeSelector("p")
    /\ m_node.type = "Element" /\ m_node.tag_name = "P"
    /\ m_result = FALSE

(***************************************************************************)
(* Properties of the line breaking.                                        *)
(***************************************************************************)
RECURSIVE Flatten(_)
Flatten(ls) == IF ls = <<>> THEN <<>> ELSE Head(ls) \o Flatten(Tail(ls))

TwoColumnText == \A k \in 1..Len(text) : text[k].width = 2

\* C10: the counter starts at offset; a line is closed immediately before a
\* cluster exactly when counter + the cluster's width > width, and the
\* counter then becomes that cluster's width; otherwise the cluster's width
\* is added to it.  So for a text of 2-column clusters and offset 0 the
\* result at an odd width is the result at the even width below it.
C10_BreakOnOverflow ==
    [][ /\ (s_pc = "loop" /\ gi = 1) => curr_width = offset
        /\ (s_pc = "loop" /\ gi' = gi + 1) =>
              IF curr_width + text[gi].width > width
              THEN /\ Len(result') = Len(result) + 1
                   /\ Flatten(result') = Bytes(SubSeq(text, 1, gi - 1))
                   /\ curr_width' = text[gi].width
              ELSE /\ result' = result
                   /\ curr_width' = curr_width + text[gi].width
        /\ (s_pc' = "done" /\ TwoColumnText /\ offset = 0 /\ width % 2 = 1) =>
              result' = SplitStringByWidth(text, width - 1, 0)
      ]_vars

\* three 2-column clusters at width 5: two on the first line, as at width 4
C10_Witness ==
    /\ s_pc = "done"
    /\ Len(text) = 3 /\ TwoColumnText
    /\ width = 5 /\ offset = 0
    /\ Len(result) = 2
    /\ result[1] = Bytes(SubSeq(text, 1, 2))
    /\ result[2] = Bytes(SubSeq(text, 3, 3))

\* C20: to_styled_node is deterministic: every run on the same (node,
\* stylesheet) ends with the same pruning decision and the same property
\* maps, whatever the order in which the property map is iterated.
C20_Deterministic ==
    pc = "done" => styled = ToStyledNode(node, stylesheet)

C20_Witness ==
    /\ pc = "done"
    /\ styled.some
    /\ Cardinality(Orders(properties)) = 6
    /\ styled.val.properties["color"] = "red"
    /\ Len(styled.val.children) < Len(node.children)

(***************************************************************************)
(* Properties of text leaves (SpecText).                                   *)
(***************************************************************************)
\* the call has returned a box
Returned == l_pc = "done"

\* the lines of the returned Texts leaf
Lines == l_ret.val.texts

\* a slice that begins with the first byte of a cluster and ends with the
\* last byte of one
WholeClusters(d) ==
    d = <<>>
    \/ /\ d[1][2] = 1
       /\ d[Len(d)][2] = (CHOOSE g \in Clusters : g.ch = d[Len(d)][1]).len

\* the clusters that begin in a slice
NumClusters(d) == Cardinality({k \in DOMAIN d : d[k][2] = 1})

RECURSIVE SumClusterWidths(_)
SumClusterWidths(t) ==
    IF t = <<>> THEN 0 ELSE Head(t).width + SumClusterWidths(Tail(t))

RECURSIVE SumLineWidths(_)
SumLineWidths(ls) ==
    IF ls = <<>> THEN 0 ELSE Head(ls).area.width + SumLineWidths(Tail(ls))

\* C11: in text leaf layout, for any text, any area width of at least 1 and
\* any offset, every produced line holds at least one grapheme cluster (no
\* line is empty) and no cluster is divided between two lines.
C11_NoEmptyLineNoDividedCluster ==
    (Returned /\ l_area.width >= 1 /\ l_node.node_type.data # <<>>) =>
        \A i \in DOMAIN Lines :
            Lines[i].data # <<>> /\ WholeClusters(Lines[i].data)

\* C12 as stated: every line rectangle of a Text leaf has a width of at most
\* the area width, also when a cluster of display width 2 meets an area of
\* width 1.
C12_LineWithinAreaWidth ==
    (Returned /\ l_area.width >= 1) =>
        \A i \in DOMAIN Lines : Lines[i].area.width <= l_area.width

\* C12, amended: every line rectangle of a Text leaf has a width of at most
\* the area width, except a line that consists of one single cluster whose
\* own display width is larger than the area width.
C12_LineWithinAreaWidthOrOneWideCluster ==
    Returned =>
        \A i \in DOMAIN Lines :
            \/ Lines[i].area.width <= l_area.width
            \/ NumClusters(Lines[i].data) = 1

C12_Witness ==
    /\ Returned
    /\ l_area.width = 1
    /\ \E i, j \in DOMAIN Lines :
          /\ Lines[i].area.width = 2
          /\ Lines[j].area.width = 1

C15_LeafWidthIsTextWidth ==
    Returned =>
        /\ l_ret.val.area.width = SumLineWidths(Lines)
        /\ l_ret.val.area.width = SumClusterWidths(l_node.node_type.data)

C15_Witness ==
    /\ Returned
    /\ Len(Lines) >= 3
    /\ l_offset > 0
    /\ l_ret.val.area.width = 4
    /\ \E i \in DOMAIN Lines : Lines[i].area.width = 2

(***************************************************************************)
(* Properties of the box tree (SpecLayout).                                *)
(***************************************************************************)
\* rectangle inner lies within rectangle outer
Contains(outer, inner) ==
    /\ outer.x <= inner.x
    /\ outer.y <= inner.y
    /\ inner.x + inner.width <= outer.x + outer.width
    /\ inner.y + inner.height <= outer.y + outer.height

RECURSIVE AllContained(_)
AllContained(obj) ==
    IF obj.ty = "Texts"
    THEN \A i \in DOMAIN obj.texts : Contains(obj.area, obj.texts[i].area)
    ELSE \A i \in DOMAIN obj.children :
            /\ Contains(obj.area, obj.children[i].area)
            /\ AllContained(obj.children[i])

\* a child that is laid out as a BLOCK: an element whose display is not
\* the keyword inline
BlockChild(n) ==
    /\ n.node_type.type = "Element"
    /\ ~("display" \in DOMAIN n.properties /\ n.properties["display"] = "inline")

\* the children of the element and how many of them the loop has processed
Children == l_node.children

Processed == Len(l_objects)

InLoop == l_pc \in {"loop", "done"} /\ l_node.node_type.type = "Element"

\* the rows on which a box shows text
RECURSIVE Rows(_)
Rows(obj) ==
    IF obj.ty = "Texts"
    THEN {obj.texts[i].area.y : i \in {k \in DOMAIN obj.texts : obj.texts[k].area.width > 0}}
    ELSE UNION {Rows(obj.children[i]) : i \in DOMAIN obj.children}

\* C13: in every box tree produced by node_to_object for a viewport of width
\* at least 1, every child rectangle lies within its parent's rectangle and
\* every line rectangle of a Texts leaf lies within the leaf's rectangle.
C13_ChildrenContained ==
    (Returned /\ l_area.width >= 1 /\ ~l_overflow) => AllContained(l_ret.val)

\* C16: in children_to_object content_len is 0 right after every BLOCK child
\* has been processed, so the child that follows a BLOCK child is placed at
\* x = area.x.
C16_ContentLenZeroAfterBlock ==
    InLoop =>
        /\ (Processed >= 1 /\ BlockChild(Children[Processed])) => l_content_len = 0
        /\ \A i \in 2..Processed :
              BlockChild(Children[i - 1]) => l_objects[i].area.x = l_area.x

C16_Witness ==
    /\ InLoop
    /\ Processed = 2
    /\ BlockChild(Children[1])
    /\ l_objects[1].area.width = 3
    /\ l_area.x = 2
    /\ l_area.width = 4
    /\ l_objects[2].area.x = 2

\* C17: a BLOCK child starts at column area.x on a row strictly below every
\* row occupied by the inline siblings before it, and the sibling after it
\* starts at column area.x on a row at or below the block's y + height.
C17_BlockOnItsOwnRows ==
    (Returned /\ l_node.node_type.type = "Element" /\ l_area.width >= 1
     /\ ~l_overflow) =>
        \A i \in DOMAIN Children :
            BlockChild(Children[i]) =>
                /\ l_objects[i].area.x = l_area.x
                /\ \A j \in 1..(i - 1) :
                      ~BlockChild(Children[j]) =>
                          \A r \in Rows(l_objects[j]) : r < l_objects[i].area.y
                /\ i < Len(Children) =>
                      /\ l_objects[i + 1].area.x = l_area.x
                      /\ l_objects[i + 1].area.y
                            >= l_objects[i].area.y + l_objects[i].area.height

\* an element whose children are all BLOCK elements that each hold a single
\* text, laid out at offset 0 in an area the texts fit in
BlocksOfOneLine ==
    /\ l_node.node_type.type = "Element"
    /\ l_offset = 0
    /\ Children # <<>>
    /\ \A i \in DOMAIN Children :
          /\ BlockChild(Children[i])
          /\ Len(Children[i].children) = 1
          /\ Children[i].children[1].node_type.type = "Text"
          /\ SumClusterWidths(Children[i].children[1].node_type.data) <= l_area.width

TextWidthOf(i) == SumClusterWidths(Children[i].children[1].node_type.data)

\* the Block of C18: one row per child, as wide as the widest text
StackedBlock ==
    LET obj == l_ret.val
    IN  /\ obj.ty = "Block"
        /\ obj.area.height = Len(Children)
        /\ \A i \in DOMAIN Children :
              /\ obj.children[i].ty = "Block"
              /\ obj.children[i].area =
                    Rect(l_area.x, l_area.y + i - 1, TextWidthOf(i), 1)
        /\ \E i \in DOMAIN Children : obj.area.width = TextWidthOf(i)
        /\ \A i \in DOMAIN Children : obj.area.width >= TextWidthOf(i)

\* C18: for an element whose children are all BLOCK elements each holding a
\* single text that fits on one line (here: of display width at least 1),
\* children_to_object yields a Block whose height is the number of children,
\* whose i-th child is a Block at x = area.x on row area.y + i of the text's
\* width and height 1, and whose width is the largest child width.
C18_BlocksStack ==
    (Returned /\ BlocksOfOneLine
     /\ \A i \in DOMAIN Children : TextWidthOf(i) >= 1) => StackedBlock

\* C19: node_to_object returns without failing (no division by zero, no
\* 16-bit overflow of a column or row counter) for every styled tree, every
\* offset and every viewport of width at least 1; it fails only at width 0.
C19_TotalForPositiveWidth ==
    l_area.width >= 1 => (l_pc # "panic" /\ ~l_overflow)

\* the child processed last is laid out INLINE
LastInline == Processed >= 1 /\ ~BlockChild(Children[Processed])

\* ceil(a / b)
CeilDiv(a, b) == (a + b - 1) \div b

\* C21: in children_to_object, after an INLINE child is processed the current
\* row is the composite's own area.y plus floor(content_len / area.width) and
\* the accumulated height is ceil(content_len / area.width), whatever
\* children came before (wrapped inline children and BLOCK children too).
C21_RowAndHeightAfterInline ==
    (InLoop /\ LastInline /\ ~l_overflow) =>
        /\ l_y = l_area.y + (l_content_len \div l_area.width)
        /\ l_height = CeilDiv(l_content_len, l_area.width)

\* the step is an iteration of the loop that has placed child l_ci
ChildPlaced == l_pc = "loop" /\ l_pc' = "loop" /\ l_ci' = l_ci + 1

RECURSIVE SumBoxWidths(_, _)
SumBoxWidths(objs, k) ==
    IF k = 0 THEN 0 ELSE objs[k].area.width + SumBoxWidths(objs, k - 1)

\* children 1..k are INLINE and, after the offset, fit together in one line,
\* which is not yet full when the k-th begins
InlineRunFits(k) ==
    /\ k <= Processed
    /\ \A i \in 1..k : ~BlockChild(Children[i])
    /\ l_offset + SumBoxWidths(l_objects, k) <= l_area.width
    /\ l_offset + SumBoxWidths(l_objects, k - 1) < l_area.width

LineData(obj) == [i \in DOMAIN obj.texts |-> obj.texts[i].data]

\* C23: in children_to_object the offset passed to the layout of every child
\* is the composite's own incoming offset, the same for every sibling and
\* independent of the running content_len; with incoming offset 0 an INLINE
\* text that follows inline content on the same line is wrapped as if it
\* began at column 0.
C23_ChildrenGetParentOffset ==
    [][ChildPlaced =>
          IF Children[l_ci].node_type.type = "Text"
          THEN LineData(l_objects'[l_ci]) =
                  SplitStringByWidth(Children[l_ci].node_type.data,
                                     l_area.width, l_offset)
          ELSE l_objects'[l_ci] =
                  ChildrenToObject(Children[l_ci], ChildRect(Locals, l_area),
                                   l_offset).obj
      ]_vars

C23_Witness ==
    /\ InLoop
    /\ Processed = 2
    /\ l_offset = 0
    /\ l_area.width = 3
    /\ Children[2].node_type.type = "Text"
    /\ l_objects[1].ty = "Texts"
    /\ l_objects[1].area.width = 1
    /\ l_objects[2].area.x = l_area.x + 1
    /\ l_objects[2].area.y = l_objects[1].area.y
    /\ Len(l_objects[2].texts) = 1
    /\ l_objects[2].texts[1].area.width = 3

\* box obj has the shape of styled node n: a Texts leaf carrying the text of
\* a Text node, a Block with one box per child, in order, for an Element
RECURSIVE SameShape(_, _)
SameShape(n, obj) ==
    IF n.node_type.type = "Text"
    THEN /\ obj.ty = "Texts"
         /\ Flatten(LineData(obj)) = Bytes(n.node_type.data)
    ELSE /\ obj.ty = "Block"
         /\ Len(obj.children) = Len(n.children)
         /\ \A i \in DOMAIN n.children : SameShape(n.children[i], obj.children[i])

\* C24: the box tree returned by node_to_object has the shape of the styled
\* tree: every Element, inline or block, yields one Block whose children are
\* the boxes of its children, one per child and in order, and every Text
\* yields one Texts leaf; no wrapper is inserted, no child dropped or moved.
C24_SameShape ==
    Returned => SameShape(l_node, l_ret.val)

C24_Witness ==
    /\ Returned
    /\ Len(Children) = 2
    /\ Children[1].node_type.type = "Text"
    /\ Children[2].node_type.type = "Element"
    /\ ~BlockChild(Children[2])
    /\ Children[1].node_type.data # Children[2].children[1].node_type.data
    /\ l_ret.val.children[1].ty = "Texts"
    /\ l_ret.val.children[2].ty = "Block"
    /\ l_ret.val.children[2].children[1].ty = "Texts"

\* the display width of a substring: the widths of the clusters in it
RECURSIVE SubstringWidth(_)
SubstringWidth(d) ==
    IF d = <<>> THEN 0
    ELSE (IF Head(d)[2] = 1
          THEN (CHOOSE g \in Clusters : g.ch = Head(d)[1]).width ELSE 0)
         + SubstringWidth(Tail(d))

\* C25: in text_to_object the i-th line (i from 0) has the rectangle
\* {x: area.x, y: area.y + i, width: display width of its substring,
\* height: 1} and carries that substring; the lines come in text order and
\* every line, the first too whatever the offset, starts at column area.x.
C25_LineRectangles ==
    Returned =>
        /\ LineData(l_ret.val) =
              SplitStringByWidth(l_node.node_type.data, l_area.width, l_offset)
        /\ Flatten(LineData(l_ret.val)) = Bytes(l_node.node_type.data)
        /\ \A i \in DOMAIN Lines :
              Lines[i].area =
                  Rect(l_area.x, l_area.y + (i - 1),
                       SubstringWidth(Lines[i].data), 1)

\* the heights of the boxes of the BLOCK children among the first k
RECURSIVE SumBlockHeights(_, _, _)
SumBlockHeights(children, objs, k) ==
    IF k = 0 THEN 0
    ELSE (IF BlockChild(children[k]) THEN objs[k].area.height ELSE 0)
         + SumBlockHeights(children, objs, k - 1)

\* C27: the height of the Block returned by children_to_object is at least
\* the sum of the heights of its BLOCK children, in whatever order BLOCK and
\* INLINE children come (an INLINE child after a BLOCK child does not discard
\* the height accumulated so far).
C27_HeightCoversBlockChildren ==
    (Returned /\ l_node.node_type.type = "Element" /\ ~l_overflow) =>
        l_ret.val.area.height
            >= SumBlockHeights(Children, l_ret.val.children, Len(Children))

(***************************************************************************)
(* Properties of split_string_by_width (SpecSplit).                        *)
(***************************************************************************)
\* C26: for every text, width and offset split_string_by_width returns a
\* non-empty list of contiguous slices whose concatenation, in order, is the
\* input text; an empty text yields a single empty slice.
C26_SlicesPartitionText ==
    s_pc = "done" =>
        /\ Len(result) >= 1
        /\ Flatten(result) = Bytes(text)
        /\ text = <<>> => result = << <<>> >>

C26_Witness ==
    /\ s_pc = "done"
    /\ Len(result) = 3
    /\ result[1] = <<>>
    /\ Len(text) = 2
    /\ Len(Bytes(text)) = 4
====
